---- MODULE Spec2Model ----
(***************************************************************************)
(* Model of the roomnl-stats forecasting pipeline                          *)
(*   src/pipeline/roomnl_model.py  calendar features, monthly multiplier,  *)
(*                                 GP fit / daily prediction, backfill,    *)
(*                                 probability scoring                     *)
(*   src/pipeline/generate.py      per-segment fit-and-predict batch       *)
(*   src/pipeline/scraper.py       the parquet store of the observations   *)
(*                                                                         *)
(* Numbers.  A float64 is a record [k, n, d]: k = "fin" is the rational    *)
(* n/d in lowest terms with d > 0, k = "nan" is NaN, k = "inf" is the      *)
(* infinity of sign n, and k = "null" is a polars null.  Finite arithmetic *)
(* is exact; the IEEE special cases (x/0, 0/0, inf-inf, NaN propagation)   *)
(* are the ones numpy produces.                                            *)
(*                                                                         *)
(* Dates.  A date is the number of days since 2024-01-01 (a Monday).       *)
(*                                                                         *)
(* The library functions are pure: the arguments of a call (args) are      *)
(* drawn from bounded sets in the initial state, and the function's action *)
(* applies it as the code computes it and records the outcome in ret.      *)
(***************************************************************************)
EXTENDS Integers, Sequences, FiniteSets, TLC

VARIABLES
    fn,       \* the function called
    args,     \* its arguments
    ret,      \* what it returned or raised; Pending until it has run
    todo,     \* compute_all_predictions: the segments still to process
    results,  \* compute_all_predictions: the prediction rows gathered so far
    fit_log,  \* the segments fit_gp_with_calendar was invoked for, in order
    file,     \* the parquet file at PARQUET_PATH
    stored    \* the store_parquet calls made and the rows handed to them

vars == <<fn, args, ret, todo, results, fit_log, file, stored>>

----------------------------------------------------------------------------
(* float64 values *)

Abs(x) == IF x < 0 THEN -x ELSE x

Sign(x) == IF x < 0 THEN -1 ELSE IF x > 0 THEN 1 ELSE 0

RECURSIVE Gcd(_, _)
Gcd(a, b) == IF b = 0 THEN a ELSE Gcd(b, a % b)

\* the finite value n/d (d # 0), in lowest terms
Fin(n, d) ==
    LET g == Gcd(Abs(n), Abs(d))
    IN  [k |-> "fin", n |-> (Sign(d) * n) \div g, d |-> Abs(d) \div g]

NaN == [k |-> "nan", n |-> 0, d |-> 1]

Inf(s) == [k |-> "inf", n |-> s, d |-> 1]

Null == [k |-> "null", n |-> 0, d |-> 1]

Zero == Fin(0, 1)

One == Fin(1, 1)

IsFin(x) == x.k = "fin"

IsNaN(x) == x.k = "nan"

\* sign of a non-NaN value
FSign(x) == Sign(x.n)

FNeg(x) == IF IsFin(x) THEN Fin(-x.n, x.d) ELSE IF x.k = "inf" THEN Inf(-x.n) ELSE x

FAdd(x, y) ==
    IF IsNaN(x) \/ IsNaN(y) THEN NaN
    ELSE IF IsFin(x) /\ IsFin(y) THEN Fin(x.n * y.d + y.n * x.d, x.d * y.d)
    ELSE IF IsFin(x) THEN y
    ELSE IF IsFin(y) THEN x
    ELSE IF x.n = y.n THEN x ELSE NaN

FSub(x, y) == FAdd(x, FNeg(y))

FMul(x, y) ==
    IF IsNaN(x) \/ IsNaN(y) THEN NaN
    ELSE IF IsFin(x) /\ IsFin(y) THEN Fin(x.n * y.n, x.d * y.d)
    ELSE IF FSign(x) * FSign(y) = 0 THEN NaN
    ELSE Inf(FSign(x) * FSign(y))

FDiv(x, y) ==
    IF IsNaN(x) \/ IsNaN(y) THEN NaN
    ELSE IF IsFin(x) /\ IsFin(y)
         THEN IF y.n # 0 THEN Fin(x.n * y.d, x.d * y.n)
              ELSE IF x.n = 0 THEN NaN ELSE Inf(FSign(x))
    ELSE IF IsFin(x) THEN Zero
    ELSE IF IsFin(y) THEN Inf(FSign(x) * (IF FSign(y) < 0 THEN -1 ELSE 1))
    ELSE NaN

\* x < y and x <= y; any comparison with NaN is false
FLt(x, y) ==
    /\ ~IsNaN(x) /\ ~IsNaN(y)
    /\ IF IsFin(x) /\ IsFin(y) THEN x.n * y.d < y.n * x.d
       ELSE IF IsFin(x) THEN y.n > 0
       ELSE IF IsFin(y) THEN x.n < 0
       ELSE x.n < y.n

FLe(x, y) == ~IsNaN(x) /\ ~IsNaN(y) /\ ~FLt(y, x)

\* np.maximum / np.minimum: NaN propagates
FMax(x, y) == IF IsNaN(x) \/ IsNaN(y) THEN NaN ELSE IF FLt(x, y) THEN y ELSE x

FMin(x, y) == IF IsNaN(x) \/ IsNaN(y) THEN NaN ELSE IF FLt(y, x) THEN y ELSE x

\* np.clip(x, lo, hi)
FClip(x, lo, hi) == FMin(FMax(x, lo), hi)

\* np.isfinite
IsFinite(x) == IsFin(x)

RECURSIVE IPow(_, _)
IPow(b, e) == IF e = 0 THEN 1 ELSE b * IPow(b, e - 1)

\* x ** e for a natural exponent e and a finite x
FPow(x, e) == Fin(IPow(x.n, e), IPow(x.d, e))

----------------------------------------------------------------------------
(* calendar: day number -> year / month / day *)

IsLeap(y) == (y % 4 = 0 /\ y % 100 # 0) \/ y % 400 = 0

YearLen(y) == IF IsLeap(y) THEN 366 ELSE 365

MonthLen(y, m) ==
    IF m = 2 THEN (IF IsLeap(y) THEN 29 ELSE 28)
    ELSE IF m \in {4, 6, 9, 11} THEN 30 ELSE 31

RECURSIVE YmdFrom(_, _, _)
\* the date `rest` days after the first of month m of year y
YmdFrom(y, m, rest) ==
    IF rest >= MonthLen(y, m)
    THEN (IF m = 12 THEN YmdFrom(y + 1, 1, rest - MonthLen(y, m))
          ELSE YmdFrom(y, m + 1, rest - MonthLen(y, m)))
    ELSE [year |-> y, month |-> m, day |-> rest + 1]

Ymd(date) == YmdFrom(2024, 1, date)

DtYear(date) == Ymd(date).year

DtMonth(date) == Ymd(date).month

DtDay(date) == Ymd(date).day

----------------------------------------------------------------------------
(* data-frame helpers *)

RECURSIVE Flatten(_)
Flatten(ss) == IF ss = <<>> THEN <<>> ELSE Head(ss) \o Flatten(Tail(ss))

\* all sequences over S of length at most n
SeqUpTo(S, n) == UNION {[1..k -> S] : k \in 0..n}

\* an optional data frame: None, or a table (a sequence of rows)
NoneDf == [some |-> FALSE, rows |-> <<>>]

SomeDf(rows) == [some |-> TRUE, rows |-> rows]

\* what a call returned, or the exception it raised
Returned(v) == [raised |-> "none", value |-> v]

Raised(e) == [raised |-> e, value |-> <<>>]

\* the call has not run yet
Pending == [raised |-> "pending", value |-> <<>>]

----------------------------------------------------------------------------
(* build_features: one row per input date, in input order.  The Fourier    *)
(* and Gaussian-bump columns are transcendental functions of the date and  *)
(* are left out; the date and the two holiday flags are kept.              *)

IsSummer(date) == IF DtMonth(date) = 7 \/ DtMonth(date) = 8 THEN 1 ELSE 0

\* mutant: the winter window opens one day late
IsWinter_From21(date) ==
    IF \/ (DtMonth(date) = 12 /\ DtDay(date) >= 21)
       \/ (DtMonth(date) = 1 /\ DtDay(date) <= 7)
    THEN 1 ELSE 0

IsWinter(date) ==
    IF \/ (DtMonth(date) = 12 /\ DtDay(date) >= 20)
       \/ (DtMonth(date) = 1 /\ DtDay(date) <= 7)
    THEN 1 ELSE 0

build_features(dates) ==
    [i \in 1..Len(dates) |->
        [contract_date |-> dates[i],
         is_summer |-> IsSummer(dates[i]),
         is_winter |-> IsWinter(dates[i])]]

\* most dates handed to build_features directly
MaxFeatDates == 3

\* the days around the edges of the flags: 1, 7 and 8 January 2024, 30 June,
\* 1 July, 31 August and 1 September 2024, 19, 20 and 31 December 2024,
\* 1, 7 and 8 January 2025, 30 June and 1 July 2025
FeatureDates ==
    {0, 6, 7, 181, 182, 243, 244, 353, 354, 365, 366, 372, 373, 546, 547}

\* any order, a date several times
FeaturesArgs == [dates : SeqUpTo(FeatureDates, MaxFeatDates)]

BuildFeaturesCall ==
    /\ fn = "build_features"
    /\ ret = Pending
    /\ ret' = Returned(build_features(args.dates))
    /\ UNCHANGED <<fn, args, todo, results, fit_log, file, stored>>

----------------------------------------------------------------------------
(* predict_daily *)

\* mutant: the range leaves its end date out
DateRange_EndExcluded(start, end) ==
    [i \in 1..(IF end > start THEN end - start ELSE 0) |-> start + i - 1]

\* pl.date_range(start, end, interval="1d"): both ends included, empty
\* when end precedes start
DateRange(start, end) ==
    [i \in 1..(IF end >= start THEN end - start + 1 ELSE 0) |-> start + i - 1]

\* mutant: the scaler lets an empty matrix through
ScalerAccepts_Empty(n) == n >= 0

\* StandardScaler.fit_transform / transform reject a matrix of n = 0 rows
\* with a ValueError
ScalerAccepts(n) == n >= 1

\* .join(month_mult, on="month", how="left"): per left row, in order, the
\* month_multiplier of every matching row, or one null when none matches
JoinMonthMult(dates, month_mult) ==
    Flatten([i \in 1..Len(dates) |->
        LET hit == SelectSeq(month_mult, LAMBDA r : r.month = DtMonth(dates[i]))
        IN  IF hit = <<>> THEN <<Null>>
            ELSE [j \in 1..Len(hit) |-> hit[j].month_multiplier]])

\* .fill_null(1.0) followed by mm[~np.isfinite(mm)] = 1.0
CleanMult(m) == IF m.k = "null" \/ ~IsFinite(m) THEN One ELSE m

MonthMultOf(dates, month_mult) ==
    LET joined == JoinMonthMult(dates, month_mult)
    IN  [i \in 1..Len(joined) |-> CleanMult(joined[i])]

Z95 == Fin(196, 100)

PredLo(mean, std) == FMax(FSub(mean, FMul(Z95, std)), Zero)

PredHi(mean, std) == FAdd(mean, FMul(Z95, std))

\* the inner prediction(mean, std, dates)
prediction(mean, std, dates) ==
    [i \in 1..Len(dates) |->
        [contract_date |-> dates[i],
         pred_mean |-> mean[i],
         pred_lo |-> PredLo(mean[i], std[i]),
         pred_hi |-> PredHi(mean[i], std[i])]]

\* gp is the fitted model's predictive distribution: a function from the
\* date (whose features are a function of it) to <<mean, std>>
predict_daily(gp, start, end, month_mult) ==
    LET dates == DateRange(start, end)
        feats == build_features(dates)
        mean_ds == [i \in 1..Len(feats) |-> gp[feats[i].contract_date][1]]
        std_ds == [i \in 1..Len(feats) |-> gp[feats[i].contract_date][2]]
        mm == MonthMultOf(dates, month_mult.rows)
    IN  IF ~ScalerAccepts(Len(feats)) THEN Raised("ValueError")
        ELSE IF ~month_mult.some THEN Returned(prediction(mean_ds, std_ds, dates))
        ELSE IF Len(mm) # Len(dates) THEN Raised("ValueError")
        ELSE Returned(prediction([i \in 1..Len(dates) |-> FMul(mean_ds[i], mm[i])],
                                 [i \in 1..Len(dates) |-> FMul(std_ds[i], mm[i])],
                                 dates))

\* longest prediction range drawn, in days
MaxDays == 3

\* 2024-01-31, 2024-02-28 and 2024-12-31: the ranges cross a month, a leap
\* day and a year
PredStarts == {30, 58, 365}

\* predictive means (a GP mean is any real, also a negative one) and
\* non-negative predictive standard deviations
GpMeans == {Fin(-1, 1), Fin(3, 1)}

GpStds == {Zero, One}

GpOut == GpMeans \X GpStds

\* multipliers of one month: absent from the table, finite, zero, NaN, inf
MultVals == {Null, Fin(1, 2), Fin(3, 2), Zero, NaN, Inf(1)}

\* a monthly table (one row per month at most) with January = a and
\* February = b, the other months 1.0; a null value leaves the month out
MkMonthMult(a, b) ==
    LET v(m) == IF m = 1 THEN a ELSE IF m = 2 THEN b ELSE One
    IN  SelectSeq([m \in 1..12 |-> [month |-> m, month_multiplier |-> v(m)]],
                  LAMBDA r : r.month_multiplier.k # "null")

MonthMultArgs ==
    {NoneDf} \cup {SomeDf(MkMonthMult(a, b)) : a \in MultVals, b \in {One, Fin(3, 2)}}

\* the arguments drawn for predict_daily; end runs from two days before
\* start to MaxDays - 1 days after it
PredictArgs ==
    UNION {{[gp |-> gp, start |-> start, end |-> start + len - 1, month_mult |-> mm] :
              gp \in [start..(start + len - 1) -> GpOut], mm \in MonthMultArgs} :
           start \in PredStarts, len \in -1..MaxDays}

PredictDailyCall ==
    /\ fn = "predict_daily"
    /\ ret = Pending
    /\ ret' = predict_daily(args.gp, args.start, args.end, args.month_mult)
    /\ UNCHANGED <<fn, args, todo, results, fit_log, file, stored>>

----------------------------------------------------------------------------
(* fill_missing_with_gp *)

\* mutant: the filled flag is set on the observed rows
FilledFlag_Inverted(registration_time) == registration_time.k # "null"

\* filled = pl.col("registration_time").is_null()
FilledFlag(registration_time) == registration_time.k = "null"

\* pl.when(registration_time.is_not_null()).then(registration_time)
\*   .otherwise(pred_mean)
FilledValue(registration_time, pred_mean) ==
    IF registration_time.k # "null" THEN registration_time ELSE pred_mean

\* pred.join(obs.select("contract_date", "registration_time"),
\*           on="contract_date", how="left"): per prediction row, in order,
\* one row per observation of its date, or one row with a null
JoinObs(pred, obs) ==
    Flatten([i \in 1..Len(pred) |->
        LET hit == SelectSeq(obs, LAMBDA o : o.contract_date = pred[i].contract_date)
        IN  IF hit = <<>> THEN <<[p |-> pred[i], registration_time |-> Null]>>
            ELSE [j \in 1..Len(hit) |->
                    [p |-> pred[i], registration_time |-> hit[j].registration_time]]])

fill_missing_with_gp(df_obs, df_pred) ==
    LET joined == JoinObs(df_pred, df_obs)
    IN  [i \in 1..Len(joined) |->
            [contract_date |-> joined[i].p.contract_date,
             pred_mean |-> joined[i].p.pred_mean,
             pred_lo |-> joined[i].p.pred_lo,
             pred_hi |-> joined[i].p.pred_hi,
             registration_time |-> joined[i].registration_time,
             registration_time_filled |->
                 FilledValue(joined[i].registration_time, joined[i].p.pred_mean),
             filled |-> FilledFlag(joined[i].registration_time)]]

\* most observations and most prediction rows drawn
MaxObs == 3

MaxPredRows == 2

\* observed rows: any order, several per date, dates outside the
\* prediction table; registration_time is a non-negative integer
ObsRows == [contract_date : 0..2, registration_time : {Fin(1, 1), Fin(2, 1)}]

\* prediction tables as predict_daily builds them, from 2024-01-01 on
PredTables ==
    {prediction(mean, [i \in 1..Len(mean) |-> One], DateRange(0, Len(mean) - 1)) :
        mean \in SeqUpTo({Fin(3, 1), Fin(5, 1)}, MaxPredRows)}

FillArgs == [df_obs : SeqUpTo(ObsRows, MaxObs), df_pred : PredTables]

FillMissingCall ==
    /\ fn = "fill_missing_with_gp"
    /\ ret = Pending
    /\ ret' = Returned(fill_missing_with_gp(args.df_obs, args.df_pred))
    /\ UNCHANGED <<fn, args, todo, results, fit_log, file, stored>>

----------------------------------------------------------------------------
(* add_prob_good_enough *)

\* math.erf(z / sqrt(2)), tabulated: odd, non-decreasing, exact at 0 and
\* at +-inf, NaN for NaN; a finite z takes the value at the lower end of
\* its unit interval (at 1/2 for 0 < |z| < 1), and float64 erf is 1.0
\* from |z| = 4 on to the table's three decimals
ErfTable(az) ==
    IF az.n = 0 THEN Zero
    ELSE IF FLt(az, Fin(1, 1)) THEN Fin(383, 1000)
    ELSE IF FLt(az, Fin(2, 1)) THEN Fin(683, 1000)
    ELSE IF FLt(az, Fin(3, 1)) THEN Fin(954, 1000)
    ELSE IF FLt(az, Fin(4, 1)) THEN Fin(997, 1000)
    ELSE One

ErfOfZ(z) ==
    IF IsNaN(z) THEN NaN
    ELSE IF z.k = "inf" THEN Fin(z.n, 1)
    ELSE IF z.n < 0 THEN FNeg(ErfTable(FNeg(z)))
    ELSE ErfTable(z)

\* sigma = np.maximum((hi - lo) / (2.0 * 1.96), 1e-9)
Sigma(lo, hi) == FMax(FDiv(FSub(hi, lo), FMul(Fin(2, 1), Z95)), Fin(1, 1000000000))

\* cdf = 0.5 * (1.0 + erf(z / sqrt(2))), z = (m - mu) / sigma
Cdf(m, mu, sigma) == FMul(Fin(1, 2), FAdd(One, ErfOfZ(FDiv(FSub(m, mu), sigma))))

Prob(cdf, direction) == IF direction = "at_least" THEN cdf ELSE FSub(One, cdf)

\* ci_pos = np.clip((m - lo) / (hi - lo), 0.0, 1.0), with the division
\* warnings silenced by np.errstate
CiPos(m, lo, hi) == FClip(FDiv(FSub(m, lo), FSub(hi, lo)), Zero, One)

Hundred == Fin(100, 1)

\* my_time_fn is the caller's function from the date to the target value
add_prob_good_enough(df_pred, my_time_fn, direction) ==
    [i \in 1..Len(df_pred) |->
        LET r == df_pred[i]
            m == my_time_fn[r.contract_date]
        IN  [contract_date |-> r.contract_date,
             pred_mean |-> r.pred_mean,
             pred_lo |-> r.pred_lo,
             pred_hi |-> r.pred_hi,
             my_time |-> m,
             prob_good_enough |->
                 FMul(Prob(Cdf(m, r.pred_mean, Sigma(r.pred_lo, r.pred_hi)), direction),
                      Hundred),
             ci_pct |-> FMul(CiPos(m, r.pred_lo, r.pred_hi), Hundred)]]

\* prediction tables with pred_lo <= pred_hi, std = 0 giving the
\* degenerate interval pred_lo = pred_mean = pred_hi
ScoredTables ==
    UNION {{prediction(mean, std, DateRange(0, k - 1)) :
              mean \in [1..k -> {Fin(4, 1), Fin(5, 1)}], std \in [1..k -> {Zero, One}]} :
           k \in 0..MaxPredRows}

Targets == {Fin(3, 1), Fin(5, 1), Fin(6, 1)}

ProbArgs ==
    UNION {{[df_pred |-> t, my_time_fn |-> f, direction |-> dir] :
              f \in [{t[i].contract_date : i \in 1..Len(t)} -> Targets],
              dir \in {"at_least", "at_most"}} :
           t \in ScoredTables}

AddProbCall ==
    /\ fn = "add_prob_good_enough"
    /\ ret = Pending
    /\ ret' = Returned(add_prob_good_enough(args.df_pred, args.my_time_fn, args.direction))
    /\ UNCHANGED <<fn, args, todo, results, fit_log, file, stored>>

----------------------------------------------------------------------------
(* trends_monthly_multiplier *)

\* the rows .unique(subset=["month"]) may keep: it keeps one row per month
\* and does not say which (keep="any"); keep maps each month present to
\* the index of its kept row
KeepChoices(rows) ==
    {keep \in [{rows[i].month : i \in 1..Len(rows)} -> 1..Len(rows)] :
        \A m \in DOMAIN keep : rows[keep[m]].month = m}

\* base.join(s, on="month", how="left"): months 1..12, null where absent
Scaffold(rows, keep) ==
    [m \in 1..12 |-> IF m \in DOMAIN keep THEN rows[keep[m]].value_mean ELSE Null]

RECURSIVE FSum(_)
FSum(vals) == IF vals = <<>> THEN Zero ELSE FAdd(Head(vals), FSum(Tail(vals)))

\* np.mean of a float array
ArrMean(vals) == FDiv(FSum(vals), Fin(Len(vals), 1))

\* pl.col(column).mean(): nulls are skipped, null when nothing is left
ColMean(vals) ==
    LET present == SelectSeq(vals, LAMBDA v : v.k # "null")
    IN  IF present = <<>> THEN Null ELSE ArrMean(present)

\* vals[(i + idx_template) % 12] averaged, i the 0-based month index
Smooth(vals, smooth_radius) ==
    [m \in 1..12 |->
        ArrMean([j \in 1..(2 * smooth_radius + 1) |->
                    vals[(((m - 1) + (j - 1 - smooth_radius)) % 12) + 1]])]

\* if strength != 1.0: vals = vals ** float(strength)
Temper(vals, strength) ==
    IF strength # 1 THEN [m \in 1..12 |-> FPow(vals[m], strength)] ELSE vals

Normalise(vals) == [m \in 1..12 |-> FDiv(vals[m], ArrMean(vals))]

trends_monthly_multiplier(trends_monthly, strength, smooth_radius, keep) ==
    LET s == Scaffold(trends_monthly, keep)
        mu == ColMean(s)
        filled == [m \in 1..12 |-> IF s[m].k = "null" THEN mu ELSE s[m]]
        smoothed == IF smooth_radius > 0 THEN Smooth(filled, smooth_radius) ELSE filled
        vals == Temper(Normalise(smoothed), strength)
    IN  IF mu.k = "null" THEN Raised("TypeError")
        ELSE Returned([m \in 1..12 |-> [month |-> m, month_multiplier |-> vals[m]]])

\* most rows of a monthly input table
MaxTrendRows == 3

\* input rows: positive values, months that are neighbours across the year
\* end, any order, a month several times
TrendRows == [month : {1, 2, 12}, value_mean : {Fin(50, 1), Fin(100, 1)}]

\* strength 0 flattens, 1 is the default, 2 amplifies
Strengths == {0, 1, 2}

SmoothRadii == {0, 1}

TrendsArgs ==
    [trends_monthly : SeqUpTo(TrendRows, MaxTrendRows),
     strength : Strengths, smooth_radius : SmoothRadii]

TrendsCall ==
    /\ fn = "trends_monthly_multiplier"
    /\ ret = Pending
    /\ \E keep \in KeepChoices(args.trends_monthly) :
          ret' = trends_monthly_multiplier(args.trends_monthly, args.strength,
                                         args.smooth_radius, keep)
    /\ UNCHANGED <<fn, args, todo, results, fit_log, file, stored>>

----------------------------------------------------------------------------
(* _aggregate_weekly and fit_gp_with_calendar *)

SetMin(S) == CHOOSE x \in S : \A y \in S : x <= y

RECURSIVE SetToSeq(_)
\* the elements of a set of numbers in ascending order
SetToSeq(S) ==
    IF S = {} THEN <<>> ELSE <<SetMin(S)>> \o SetToSeq(S \ {SetMin(S)})

\* .sort("contract_date"): the rows of the earliest date first, rows of
\* one date in their order of arrival
SortByDate(df) ==
    LET dates == SetToSeq({df[i].contract_date : i \in 1..Len(df)})
    IN  Flatten([k \in 1..Len(dates) |->
                    SelectSeq(df, LAMBDA r : r.contract_date = dates[k])])

\* mutant: the truncation keeps the day
WeekStart_Daily(date) == date

\* dt.truncate("1w"): the Monday of the date's week (day 0 is a Monday)
WeekStart(date) == date - (date % 7)

\* the orders in which group_by may emit the groups: it does not keep the
\* order of the input (maintain_order is off)
GroupOrders(df) ==
    LET weeks == {WeekStart(df[i].contract_date) : i \in 1..Len(df)}
    IN  {order \in [1..Cardinality(weeks) -> weeks] :
            \A a, b \in DOMAIN order : a # b => order[a] # order[b]}

\* group_by("week_start").agg(min date, mean registration_time) with the
\* groups emitted in the given order, then .sort("contract_date")
AggregateWeeklyIn(df, order) ==
    LET group(w) == SelectSeq(df, LAMBDA r : WeekStart(r.contract_date) = w)
    IN  SortByDate([k \in 1..Len(order) |->
            LET g == group(order[k])
            IN  [week_start |-> order[k],
                 contract_date |-> SetMin({g[i].contract_date : i \in 1..Len(g)}),
                 registration_time |->
                     ArrMean([i \in 1..Len(g) |-> g[i].registration_time])]])

\* the weekly table; the final sort makes it the same for every group
\* order, so the ascending one stands for all
_aggregate_weekly(df) ==
    AggregateWeeklyIn(df, SetToSeq({WeekStart(df[i].contract_date) : i \in 1..Len(df)}))

\* most rows of a table handed to _aggregate_weekly directly
MaxWeeklyRows == 3

\* observations on Monday, Tuesday and Sunday of the first week of 2024,
\* on the Monday after and on a Tuesday one week later; any order, several
\* per day; a registration_time is a non-negative integer
WeeklyRows == [contract_date : {0, 1, 6, 7, 15}, registration_time : {One, Fin(4, 1)}]

WeeklyArgs == [df : SeqUpTo(WeeklyRows, MaxWeeklyRows)]

AggregateWeeklyCall ==
    /\ fn = "_aggregate_weekly"
    /\ ret = Pending
    /\ \E order \in GroupOrders(args.df) :
          ret' = Returned(AggregateWeeklyIn(args.df, order))
    /\ UNCHANGED <<fn, args, todo, results, fit_log, file, stored>>

\* y = y / mm: every weekly target divided by its month's multiplier
Deseasonalise(y, mm) == [i \in 1..Len(y) |-> FDiv(y[i], mm[i])]

\* gp.fit validates its input and raises ValueError on a NaN or infinite
\* target
GpFitAccepts(y) == \A i \in 1..Len(y) : IsFinite(y[i])

\* optimiser is what the hyperparameter optimisation inside gp.fit does:
\* it fails, or it yields the fitted model gp
fit_gp_with_calendar(df, month_mult, optimiser) ==
    LET df_local == SortByDate(df)
        df_weekly == _aggregate_weekly(df_local)
        dates == [i \in 1..Len(df_weekly) |-> df_weekly[i].contract_date]
        feats == build_features(dates)
        y0 == [i \in 1..Len(df_weekly) |-> df_weekly[i].registration_time]
        mm == MonthMultOf(dates, month_mult.rows)
        y == IF month_mult.some THEN Deseasonalise(y0, mm) ELSE y0
    IN  IF month_mult.some /\ Len(mm) # Len(y0) THEN Raised("ValueError")
        ELSE IF ~ScalerAccepts(Len(feats)) THEN Raised("ValueError")
        ELSE IF ~GpFitAccepts(y) THEN Raised("ValueError")
        ELSE IF ~optimiser.ok THEN Raised("FitError")
        ELSE Returned([gp |-> optimiser.gp,
                       x_train |-> [i \in 1..Len(feats) |->
                           [contract_date |-> feats[i].contract_date,
                            is_summer |-> feats[i].is_summer,
                            is_winter |-> feats[i].is_winter,
                            y_deseasonal |-> y[i]]]])

\* the fitted models drawn, by number, and the predictive distribution of
\* each: its mean and std at every date
GpModels == {1}

GpPredict(gp) == [date \in Nat |-> <<Fin(2 + gp, 1), One>>]

\* what the optimiser may do: fail, or yield one of the models
FitOutcomes ==
    {[ok |-> FALSE, gp |-> 0]} \cup {[ok |-> TRUE, gp |-> gp] : gp \in GpModels}

\* most rows of a table handed to fit_gp_with_calendar directly
MaxFitRows == 3

\* observations in two weeks of January and one of February 2024; a
\* registration_time is a non-negative integer
FitRows == [contract_date : {0, 7, 31}, registration_time : {Zero, Fin(4, 1)}]

FitArgs == [df : SeqUpTo(FitRows, MaxFitRows), month_mult : MonthMultArgs]

FitGpCall ==
    /\ fn = "fit_gp_with_calendar"
    /\ ret = Pending
    /\ \E optimiser \in FitOutcomes :
          ret' = fit_gp_with_calendar(args.df, args.month_mult, optimiser)
    /\ UNCHANGED <<fn, args, todo, results, fit_log, file, stored>>

----------------------------------------------------------------------------
(* generate.py: _fit_and_predict and compute_all_predictions               *)
(* Cities and room types are named by numbers, in their sort order.        *)

MIN_ROWS_FOR_GP == 20

\* a null contract_date (a date the scraper could not parse)
NullDate == -1

\* the None label of a segment that is not restricted to a city / room type
NoLabel == 0

\* df.select("contract_date", "registration_time").drop_nulls()
DropNulls(df) ==
    LET cols == [i \in 1..Len(df) |->
                    [contract_date |-> df[i].contract_date,
                     registration_time |-> df[i].registration_time]]
    IN  SelectSeq(cols, LAMBDA r : r.contract_date # NullDate /\ r.registration_time.k # "null")

\* mutant: the threshold is off by one
TooFewRows_OffByOne(model_df) == Len(model_df) < MIN_ROWS_FOR_GP - 1

\* if len(model_df) < MIN_ROWS_FOR_GP: return []
TooFewRows(model_df) == Len(model_df) < MIN_ROWS_FOR_GP

\* .round(1): the nearest multiple of 0.1, halves away from zero
Round1(x) ==
    LET a == Abs(x.n)
    IN  Fin(Sign(x.n) * ((20 * a + x.d) \div (2 * x.d)), 10)

\* pl.col("contract_date").cast(pl.Utf8): the year, month and day of the
\* ISO text
DateToUtf8(date) == Ymd(date)

\* what _fit_and_predict does: the rows it returns or the exception that
\* leaves it, and whether it invoked fit_gp_with_calendar
_fit_and_predict(df, horizon_days, city, type_of_room, today, optimiser) ==
    LET model_df == DropNulls(df)
        fit == fit_gp_with_calendar(model_df, NoneDf, optimiser)
        start == SetMin({model_df[i].contract_date : i \in 1..Len(model_df)})
        end == today + horizon_days
        preds == predict_daily(GpPredict(fit.value.gp), start, end, NoneDf)
    IN  IF TooFewRows(model_df)
        THEN [raised |-> "none", value |-> <<>>, fitted |-> FALSE]
        ELSE IF fit.raised # "none"
        THEN [raised |-> "none", value |-> <<>>, fitted |-> TRUE]
        ELSE IF preds.raised # "none"
        THEN [raised |-> preds.raised, value |-> <<>>, fitted |-> TRUE]
        ELSE [raised |-> "none",
              value |-> [i \in 1..Len(preds.value) |->
                  [contract_date |-> DateToUtf8(preds.value[i].contract_date),
                   pred_mean |-> Round1(preds.value[i].pred_mean),
                   pred_lo |-> Round1(preds.value[i].pred_lo),
                   pred_hi |-> Round1(preds.value[i].pred_hi),
                   city |-> city,
                   type_of_room |-> type_of_room]],
              fitted |-> TRUE]

\* (c1, t1) sorts before or with (c2, t2)
ComboLe(a, b) == a[1] < b[1] \/ (a[1] = b[1] /\ a[2] <= b[2])

RECURSIVE SortCombos(_)
\* .unique().sort("city", "type_of_room")
SortCombos(S) ==
    IF S = {} THEN <<>>
    ELSE LET m == CHOOSE x \in S : \A y \in S : ComboLe(x, y)
         IN  <<m>> \o SortCombos(S \ {m})

Segment(kind, city, type_of_room) ==
    [kind |-> kind, city |-> city, type_of_room |-> type_of_room]

\* the segments in the order compute_all_predictions takes them: the
\* global one, the cities sorted, the (city, room type) pairs sorted
SegmentsOf(df) ==
    LET cities == SortCombos({<<df[i].city, NoLabel>> : i \in 1..Len(df)})
        combos == SortCombos({<<df[i].city, df[i].type_of_room>> : i \in 1..Len(df)})
    IN  <<Segment("global", NoLabel, NoLabel)>>
        \o [k \in 1..Len(cities) |-> Segment("city", cities[k][1], NoLabel)]
        \o [k \in 1..Len(combos) |-> Segment("combo", combos[k][1], combos[k][2])]

\* df, df.filter(city == ...), df.filter((city == ...) & (type_of_room == ...))
SegmentDf(df, seg) ==
    IF seg.kind = "global" THEN df
    ELSE IF seg.kind = "city" THEN SelectSeq(df, LAMBDA r : r.city = seg.city)
    ELSE SelectSeq(df, LAMBDA r : r.city = seg.city /\ r.type_of_room = seg.type_of_room)

\* results.extend(_fit_and_predict(...)) for the segment at the head of
\* todo; an exception leaving _fit_and_predict leaves
\* compute_all_predictions too
ProcessSegment(kind) ==
    /\ fn = "compute_all_predictions"
    /\ ret = Pending
    /\ todo # <<>>
    /\ Head(todo).kind = kind
    /\ \E optimiser \in FitOutcomes :
          LET seg == Head(todo)
              r == _fit_and_predict(SegmentDf(args.df, seg), args.horizon_days,
                                 seg.city, seg.type_of_room, args.today, optimiser)
          IN  /\ fit_log' = IF r.fitted THEN Append(fit_log, seg) ELSE fit_log
              /\ IF r.raised = "none"
                 THEN /\ results' = results \o r.value
                      /\ todo' = Tail(todo)
                      /\ ret' = ret
                 ELSE /\ ret' = Raised(r.raised)
                      /\ UNCHANGED <<results, todo>>
    /\ UNCHANGED <<fn, args, file, stored>>

GlobalModel == ProcessSegment("global")

CityModel == ProcessSegment("city")

ComboModel == ProcessSegment("combo")

\* return results
ReturnResults ==
    /\ fn = "compute_all_predictions"
    /\ ret = Pending
    /\ todo = <<>>
    /\ ret' = Returned(results)
    /\ UNCHANGED <<fn, args, todo, results, fit_log, file, stored>>

\* rows a (city, room type) pair may have beyond MIN_ROWS_FOR_GP
MaxSurplus == 0

\* largest horizon_days drawn
MaxHorizon == 0

\* first contract date of the data: 2024-01-05
FirstDate == 4

\* the tables of one (city, room type) pair: n rows on consecutive days
\* from FirstDate, the first bad_dates of them with a null contract_date
\* and the next bad_values with a null registration_time
PairRows(city, type_of_room, shape) ==
    [i \in 1..shape.n |->
        [contract_date |->
             IF i <= shape.bad_dates THEN NullDate ELSE FirstDate + (i - 1),
         registration_time |->
             IF i > shape.bad_dates /\ i <= shape.bad_dates + shape.bad_values
             THEN Null ELSE Fin(1 + (i % 3), 1),
         city |-> city,
         type_of_room |-> type_of_room]]

\* no rows; one row short of the threshold; the threshold and more, all
\* valid; the threshold with one null date or one null value
Shapes ==
    {[n |-> n, bad_dates |-> 0, bad_values |-> 0] :
        n \in {0, MIN_ROWS_FOR_GP - 1} \cup
              (MIN_ROWS_FOR_GP..(MIN_ROWS_FOR_GP + MaxSurplus))}
    \cup {[n |-> MIN_ROWS_FOR_GP, bad_dates |-> 1, bad_values |-> 0],
          [n |-> MIN_ROWS_FOR_GP, bad_dates |-> 0, bad_values |-> 1]}

FullShape == [n |-> MIN_ROWS_FOR_GP, bad_dates |-> 0, bad_values |-> 0]

\* two room types in city 1, one in city 2 (the latter all valid)
BatchDfs ==
    {PairRows(1, 1, a) \o PairRows(2, 1, b) \o PairRows(1, 2, c) :
        a \in Shapes, b \in {FullShape}, c \in Shapes}

\* today is the first contract date; with horizon_days < 0 the prediction
\* end precedes every contract date
BatchArgs ==
    [df : BatchDfs, horizon_days : -1..MaxHorizon, today : {FirstDate}]

----------------------------------------------------------------------------
(* scraper.py: store_parquet and scrape.  A table is a sequence of rows, a *)
(* row a record of its columns, so the column order (which                 *)
(* df.select(existing.columns) aligns) plays no part.                      *)

\* PARQUET_PATH does not exist / holds the table rows
NoFile == [exists |-> FALSE, rows |-> <<>>]

FileOf(rows) == [exists |-> TRUE, rows |-> rows]

RowSet(rows) == {rows[i] : i \in 1..Len(rows)}

\* .unique(): the distinct rows, each once, in no particular order
\* (maintain_order is off)
Unique(rows) ==
    {u \in [1..Cardinality(RowSet(rows)) -> RowSet(rows)] :
        \A a, b \in DOMAIN u : a # b => u[a] # u[b]}

\* the else branch: df.write_parquet(path), the table as it is
FirstWrite(df) == {FileOf(df)}

\* the files store_parquet(df) may leave, given the file it finds
store_parquet(df, path) ==
    IF path.exists
    THEN {FileOf(combined) : combined \in Unique(path.rows \o df)}
    ELSE FirstWrite(df)

\* most store_parquet calls in a run and most rows of a table
MaxStores == 3

MaxStoreRows == 2

\* three rows of the same schema: two rentals on 2024-01-01 and one on the
\* next day
StoreRows ==
    {[contract_date |-> 0, registration_time |-> One],
     [contract_date |-> 0, registration_time |-> Fin(2, 1)],
     [contract_date |-> 1, registration_time |-> One]}

\* the tables stored: empty, rows in any order, a row twice (clean_table
\* removes no duplicates)
StoreTables == SeqUpTo(StoreRows, MaxStoreRows)

\* a direct call store_parquet(df)
StoreParquetCall ==
    /\ fn \in {"store_parquet", "scrape"}
    /\ stored.calls < MaxStores
    /\ \E df \in StoreTables :
          /\ fn' = "store_parquet"
          /\ args' = [df |-> SomeDf(df)]
          /\ file' \in store_parquet(df, file)
          /\ stored' = [calls |-> stored.calls + 1, rows |-> stored.rows \cup RowSet(df)]
          /\ ret' = Returned(<<>>)
    /\ UNCHANGED <<todo, results, fit_log>>

\* scrape(): df is what clean_table returned, None when the page has no
\* table; it is stored when it has rows, and returned
ScrapeCall ==
    /\ fn \in {"store_parquet", "scrape"}
    /\ stored.calls < MaxStores
    /\ \E df \in {NoneDf} \cup {SomeDf(t) : t \in StoreTables} :
          /\ fn' = "scrape"
          /\ args' = [df |-> df]
          /\ IF df.some /\ Len(df.rows) > 0
             THEN /\ file' \in store_parquet(df.rows, file)
                  /\ stored' = [calls |-> stored.calls + 1,
                                rows |-> stored.rows \cup RowSet(df.rows)]
             ELSE UNCHANGED <<file, stored>>
          /\ ret' = Returned(df.rows)
    /\ UNCHANGED <<todo, results, fit_log>>

----------------------------------------------------------------------------
(* specifications: the arguments of a call are drawn in the initial state  *)
(* and the action applies the function to them                             *)

\* no batch is running
NoBatch ==
    /\ todo = <<>>
    /\ results = <<>>
    /\ fit_log = <<>>

\* nothing was stored: PARQUET_PATH does not exist
NoStore ==
    /\ file = NoFile
    /\ stored = [calls |-> 0, rows |-> {}]

InitPredict ==
    /\ fn = "predict_daily"
    /\ args \in PredictArgs
    /\ ret = Pending
    /\ NoBatch
    /\ NoStore

NextPredict == PredictDailyCall

SpecPredict == InitPredict /\ [][NextPredict]_vars

InitFill ==
    /\ fn = "fill_missing_with_gp"
    /\ args \in FillArgs
    /\ ret = Pending
    /\ NoBatch
    /\ NoStore

NextFill == FillMissingCall

SpecFill == InitFill /\ [][NextFill]_vars

InitProb ==
    /\ fn = "add_prob_good_enough"
    /\ args \in ProbArgs
    /\ ret = Pending
    /\ NoBatch
    /\ NoStore

NextProb == AddProbCall

SpecProb == InitProb /\ [][NextProb]_vars

InitTrends ==
    /\ fn = "trends_monthly_multiplier"
    /\ args \in TrendsArgs
    /\ ret = Pending
    /\ NoBatch
    /\ NoStore

NextTrends == TrendsCall

SpecTrends == InitTrends /\ [][NextTrends]_vars

Init ==
    /\ fn = "compute_all_predictions"
    /\ args \in BatchArgs
    /\ ret = Pending
    /\ todo = SegmentsOf(args.df)
    /\ results = <<>>
    /\ fit_log = <<>>
    /\ NoStore

Next == GlobalModel \/ CityModel \/ ComboModel \/ ReturnResults

Spec == Init /\ [][Next]_vars

InitFeatures ==
    /\ fn = "build_features"
    /\ args \in FeaturesArgs
    /\ ret = Pending
    /\ NoBatch
    /\ NoStore

NextFeatures == BuildFeaturesCall

SpecFeatures == InitFeatures /\ [][NextFeatures]_vars

InitWeekly ==
    /\ fn = "_aggregate_weekly"
    /\ args \in WeeklyArgs
    /\ ret = Pending
    /\ NoBatch
    /\ NoStore

NextWeekly == AggregateWeeklyCall

SpecWeekly == InitWeekly /\ [][NextWeekly]_vars

\* no call was made yet and there is no file
InitStore ==
    /\ fn = "store_parquet"
    /\ args = [df |-> NoneDf]
    /\ ret = Pending
    /\ NoBatch
    /\ NoStore

NextStore == StoreParquetCall \/ ScrapeCall

SpecStore == InitStore /\ [][NextStore]_vars

InitFit ==
    /\ fn = "fit_gp_with_calendar"
    /\ args \in FitArgs
    /\ ret = Pending
    /\ NoBatch
    /\ NoStore

NextFit == FitGpCall

SpecFit == InitFit /\ [][NextFit]_vars

----------------------------------------------------------------------------
(* claims *)

\* the call of function f has run
Called(f) == fn = f /\ ret # Pending

Rows == ret.value

----------------------------------------------------------------------------
(* claims about build_features *)

\* the days of July and August (2024: days 182..243, 2025: days 547..608)
SummerDays == (182..243) \cup (547..608)

\* the days from 20 December to 7 January (1..7 January 2024: days 0..6,
\* 20 December 2024 to 7 January 2025: days 354..372)
WinterDays == (0..6) \cup (354..372)

\* C11: build_features returns one row per input date in the order of the
\* input, also for unsorted dates and duplicates; is_summer and is_winter
\* are 0 or 1, is_summer is 1 exactly in July and August and is_winter is 1
\* exactly from 20 to 31 December and from 1 to 7 January
C11_FeatureRows ==
    Called("build_features") =>
        /\ ret.raised = "none"
        /\ Len(Rows) = Len(args.dates)
        /\ \A i \in 1..Len(Rows) :
              /\ Rows[i].contract_date = args.dates[i]
              /\ Rows[i].is_summer \in {0, 1}
              /\ Rows[i].is_winter \in {0, 1}
              /\ Rows[i].is_summer = 1 <=> args.dates[i] \in SummerDays
              /\ Rows[i].is_winter = 1 <=> args.dates[i] \in WinterDays

\* an unsorted input with a duplicate, its rows in summer, in winter (the
\* first day of the window) and again in summer
C11_Witness ==
    /\ Called("build_features")
    /\ args.dates = <<243, 354, 243>>
    /\ Len(Rows) = 3
    /\ Rows[1].is_summer = 1 /\ Rows[1].is_winter = 0
    /\ Rows[2].is_summer = 0 /\ Rows[2].is_winter = 1
    /\ Rows[3].contract_date = 243

----------------------------------------------------------------------------
(* claims about _aggregate_weekly *)

\* the observations of the week with number w (week 0 starts on day 0)
ObsInWeek(w) == SelectSeq(args.df, LAMBDA r : r.contract_date \div 7 = w)

\* C12: _aggregate_weekly emits one row per week that holds an observation
\* and no other row; the row carries the earliest observed date of its
\* week and the arithmetic mean of the week's registration_time values; the
\* rows are in strictly ascending date order
C12_OneRowPerWeek ==
    Called("_aggregate_weekly") =>
        /\ ret.raised = "none"
        /\ \A i \in 1..Len(args.df) :
              Cardinality({k \in 1..Len(Rows) :
                  Rows[k].contract_date \div 7 = args.df[i].contract_date \div 7}) = 1
        /\ \A k \in 1..Len(Rows) :
              LET obs == ObsInWeek(Rows[k].contract_date \div 7)
              IN  /\ obs # <<>>
                  /\ \E i \in 1..Len(obs) : obs[i].contract_date = Rows[k].contract_date
                  /\ \A i \in 1..Len(obs) : Rows[k].contract_date <= obs[i].contract_date
                  /\ FMul(Rows[k].registration_time, Fin(Len(obs), 1)) =
                         FSum([i \in 1..Len(obs) |-> obs[i].registration_time])
        /\ \A k \in 1..(Len(Rows) - 1) :
              Rows[k].contract_date < Rows[k + 1].contract_date

\* an unsorted table with two observations on one day and a later week
\* first: two rows, the earlier week first with the mean 5/2
C12_Witness ==
    /\ Called("_aggregate_weekly")
    /\ Len(args.df) = 3
    /\ args.df[1].contract_date = 7
    /\ args.df[2].contract_date = 6
    /\ args.df[3].contract_date = 1
    /\ Len(Rows) = 2
    /\ Rows[1].contract_date = 1
    /\ Rows[1].registration_time = Fin(5, 2)
    /\ Rows[2].contract_date = 7

----------------------------------------------------------------------------
(* claims about predict_daily *)

\* C1 (as claimed): every row predict_daily produces has
\* 0 <= pred_lo <= pred_mean <= pred_hi, for any predictive mean and any
\* non-negative predictive std, with or without a monthly multiplier
C1_IntervalOrdered ==
    (Called("predict_daily") /\ ret.raised = "none") =>
        \A i \in 1..Len(Rows) :
            /\ FLe(Zero, Rows[i].pred_lo)
            /\ FLe(Rows[i].pred_lo, Rows[i].pred_mean)
            /\ FLe(Rows[i].pred_mean, Rows[i].pred_hi)

\* C8: for start <= end predict_daily returns (end - start) + 1 rows, one
\* per calendar day of the inclusive range, ascending, none missing or
\* repeated
C8_OneRowPerDay ==
    (Called("predict_daily") /\ args.start <= args.end) =>
        /\ ret.raised = "none"
        /\ Len(Rows) = (args.end - args.start) + 1
        /\ \A i \in 1..Len(Rows) : Rows[i].contract_date = args.start + (i - 1)

C8_Witness ==
    /\ Called("predict_daily")
    /\ args.end = args.start + 2
    /\ args.month_mult.some
    /\ ret.raised = "none"
    /\ Len(Rows) = 3
    /\ DtMonth(Rows[1].contract_date) # DtMonth(Rows[3].contract_date)

\* C9: with an end date that precedes the start date predict_daily raises
\* an error and returns no prediction table, not even an empty one
C9_InvalidRangeRaises ==
    (Called("predict_daily") /\ args.end < args.start) =>
        /\ ret.raised = "ValueError"
        /\ ret.value = <<>>

C9_Witness ==
    /\ Called("predict_daily")
    /\ args.end < args.start
    /\ ret.raised # "none"

----------------------------------------------------------------------------
(* claims about fill_missing_with_gp *)

\* the observations of a date
ObsOn(date) == {j \in 1..Len(args.df_obs) : args.df_obs[j].contract_date = date}

\* C6: every date present in the observed table yields filled = false and
\* the observed value; every other prediction date yields filled = true
\* and pred_mean; every prediction date and every observation of one
\* appears in the output
C6_FillKeepsObserved ==
    Called("fill_missing_with_gp") =>
        /\ \A i \in 1..Len(Rows) :
              IF ObsOn(Rows[i].contract_date) # {}
              THEN /\ Rows[i].filled = FALSE
                   /\ \E j \in ObsOn(Rows[i].contract_date) :
                         Rows[i].registration_time_filled =
                             args.df_obs[j].registration_time
              ELSE /\ Rows[i].filled = TRUE
                   /\ \E p \in 1..Len(args.df_pred) :
                         /\ args.df_pred[p].contract_date = Rows[i].contract_date
                         /\ Rows[i].registration_time_filled = args.df_pred[p].pred_mean
        /\ \A p \in 1..Len(args.df_pred) :
              /\ \E i \in 1..Len(Rows) :
                    Rows[i].contract_date = args.df_pred[p].contract_date
              /\ \A j \in ObsOn(args.df_pred[p].contract_date) :
                    \E i \in 1..Len(Rows) :
                        /\ Rows[i].contract_date = args.df_pred[p].contract_date
                        /\ Rows[i].registration_time_filled =
                               args.df_obs[j].registration_time

C6_Witness ==
    /\ Called("fill_missing_with_gp")
    /\ \E i, j \in 1..Len(Rows) :
          /\ Rows[i].filled = FALSE
          /\ Rows[i].registration_time_filled = Fin(2, 1)
          /\ Rows[j].filled = TRUE
          /\ Rows[j].registration_time_filled = Fin(5, 1)
    /\ \E j \in 1..Len(args.df_obs) : args.df_obs[j].contract_date = 2

\* C14 (as claimed): for every observed table, also one with several
\* observations on a date or with dates absent from the prediction table,
\* the output has one row per row of the prediction table, with the same
\* date and with pred_mean, pred_lo and pred_hi unchanged
C14_OneRowPerPrediction ==
    Called("fill_missing_with_gp") =>
        /\ Len(Rows) = Len(args.df_pred)
        /\ \A i \in 1..Len(Rows) :
              i <= Len(args.df_pred) =>
                  /\ Rows[i].contract_date = args.df_pred[i].contract_date
                  /\ Rows[i].pred_mean = args.df_pred[i].pred_mean
                  /\ Rows[i].pred_lo = args.df_pred[i].pred_lo
                  /\ Rows[i].pred_hi = args.df_pred[i].pred_hi

----------------------------------------------------------------------------
(* claims about add_prob_good_enough *)

\* a percentage: a number (not NaN, not infinite) in [0, 100]
IsPct(x) == FLe(Zero, x) /\ FLe(x, Hundred)

\* C7 (as claimed): for every input (any mean, lo <= hi including hi = lo,
\* any target, either direction) every output row has prob_good_enough and
\* ci_pct in [0, 100], never NaN or infinite
C7_ScoresArePercentages ==
    Called("add_prob_good_enough") =>
        \A i \in 1..Len(Rows) :
            IsPct(Rows[i].prob_good_enough) /\ IsPct(Rows[i].ci_pct)

----------------------------------------------------------------------------
(* claims about trends_monthly_multiplier *)

\* |x| < 1e-6 for a finite x
WithinTol(x) == IsFin(x) /\ Abs(x.n) <= (x.d - 1) \div 1000000

\* C4 (as claimed): for every monthly table and every strength and
\* smooth_radius the mean of the returned month_multiplier values is 1.0
\* within 1e-6
C4_MeanIsOne ==
    (Called("trends_monthly_multiplier") /\ ret.raised = "none") =>
        WithinTol(FSub(ArrMean([m \in 1..Len(Rows) |-> Rows[m].month_multiplier]), One))

\* C5 (as claimed): trends_monthly_multiplier always returns twelve rows,
\* months 1..12 ascending, for any input completeness, also for no months
C5_TwelveRows ==
    Called("trends_monthly_multiplier") =>
        /\ ret.raised = "none"
        /\ Len(Rows) = 12
        /\ \A m \in 1..Len(Rows) : Rows[m].month = m

\* per month, the last of its rows in input order
LatestRows(rows) ==
    [m \in {rows[i].month : i \in 1..Len(rows)} |->
        CHOOSE i \in 1..Len(rows) :
            /\ rows[i].month = m
            /\ \A j \in 1..Len(rows) : rows[j].month = m => j <= i]

\* C13 (as claimed): of several rows for one month the last one in input
\* order is the one kept, so the result is the one function of the input
\* table that the latest rows give
C13_KeepsLatest ==
    Called("trends_monthly_multiplier") =>
        ret = trends_monthly_multiplier(args.trends_monthly, args.strength,
                                        args.smooth_radius,
                                        LatestRows(args.trends_monthly))

----------------------------------------------------------------------------
(* claims about fit_gp_with_calendar *)

\* C10 (as claimed): given a monthly multiplier, every deseasonalised
\* target is finite: whatever the multiplier of a month is (zero, NaN,
\* infinite, missing), no non-finite value reaches gp.fit (which would
\* reject it) or the y_deseasonal column
C10_DeseasonalisedFinite ==
    (/\ Called("fit_gp_with_calendar")
     /\ args.month_mult.some
     /\ args.df # <<>>
     /\ ret.raised # "FitError") =>
        /\ ret.raised = "none"
        /\ \A i \in 1..Len(ret.value.x_train) :
              IsFinite(ret.value.x_train[i].y_deseasonal)

----------------------------------------------------------------------------
(* claims about store_parquet *)

\* C16 (as claimed): after any sequence of store_parquet calls the file
\* holds exactly the distinct rows of all tables stored so far, none of
\* them twice and none of them lost; and a call whose rows are all in the
\* file already leaves the file's set of rows as it was
C16_StoreIsDistinctUnion ==
    [][stored'.calls # stored.calls =>
          /\ file'.exists
          /\ RowSet(file'.rows) = stored'.rows
          /\ Len(file'.rows) = Cardinality(stored'.rows)
          /\ (file.exists /\ RowSet(args'.df.rows) \subseteq RowSet(file.rows)) =>
                 RowSet(file'.rows) = RowSet(file.rows)]_vars

----------------------------------------------------------------------------
(* claims about compute_all_predictions and _fit_and_predict *)

\* the segments processed so far, each begun and left
Processed ==
    LET all == SegmentsOf(args.df)
    IN  {all[k] : k \in 1..(Len(all) - Len(todo))}

\* rows of the segment's table with contract_date and registration_time
\* both non-null
ValidRows(seg) ==
    LET t == SegmentDf(args.df, seg)
    IN  Cardinality({i \in 1..Len(t) :
            t[i].contract_date # NullDate /\ t[i].registration_time.k # "null"})

RowsOf(seg) ==
    {i \in 1..Len(results) :
        results[i].city = seg.city /\ results[i].type_of_room = seg.type_of_room}

InFitLog(seg) == \E k \in 1..Len(fit_log) : fit_log[k] = seg

\* the table fit_gp_with_calendar fits the segment's model on: the rows
\* left of the segment's valid rows by the weekly aggregation
TrainingRows(seg) == _aggregate_weekly(SortByDate(DropNulls(SegmentDf(args.df, seg))))

\* C15 (as claimed): whenever _fit_and_predict fits a model, the model is
\* fitted on at least 20 training points, counted after the weekly
\* aggregation inside fit_gp_with_calendar
C15_TwentyTrainingPoints ==
    fn = "compute_all_predictions" =>
        \A k \in 1..Len(fit_log) : Len(TrainingRows(fit_log[k])) >= 20

\* C2 (as claimed): a failure raised while fitting or while predicting a
\* segment yields no rows for that segment only, the remaining segments
\* are still processed, and no segment's failure aborts the run
C2_NoSegmentAbortsRun ==
    fn = "compute_all_predictions" =>
        /\ ret.raised \in {"pending", "none"}
        /\ ret.raised = "none" => todo = <<>>

\* C3: a segment with fewer than 20 rows having contract_date and
\* registration_time both non-null gets zero prediction rows, the model
\* fit is never invoked for it, and no error leaves _fit_and_predict
C3_SmallSegmentSkipped ==
    fn = "compute_all_predictions" =>
        /\ \A seg \in Processed :
              ValidRows(seg) < 20 => (RowsOf(seg) = {} /\ ~InFitLog(seg))
        /\ (todo # <<>> /\ ValidRows(Head(todo)) < 20) =>
              (ret.raised \in {"pending", "none"} /\ ~InFitLog(Head(todo)))

C3_Witness ==
    /\ fn = "compute_all_predictions"
    /\ ret.raised = "none"
    /\ \E seg \in Processed :
          /\ ValidRows(seg) = 19
          /\ Len(SegmentDf(args.df, seg)) = 20
          /\ RowsOf(seg) = {}
    /\ \E seg \in Processed : ValidRows(seg) = 20 /\ RowsOf(seg) # {}

====
